---- MODULE Spec2Model ----
(***************************************************************************)
(* A model of monero-adaptor: the CLSAG signing kernel (sign), the DLEQ    *)
(* proof, the hash commitment and the four-message Alice/Bob protocol that *)
(* yields an adaptor signature.                                            *)
(*                                                                         *)
(* Abstraction of the primitives the crate imports:                        *)
(*  - scalars are the field Z_GroupOrder (a small prime in place of the    *)
(*    Ed25519 group order l);                                              *)
(*  - points are pairs <<a, b>> standing for a*G + b*B with G and B two    *)
(*    independent generators, so that hash_point_to_point never returns a  *)
(*    known multiple of G;                                                 *)
(*  - a Keccak-256 digest is collision free: it is represented by the      *)
(*    byte string that was absorbed; Scalar::from_bytes_mod_order folds    *)
(*    the digest into Z_GroupOrder.                                        *)
(* Rust indices are 0-based; At(s, i) reads element i of a Rust array.     *)
(***************************************************************************)
EXTENDS Integers, Sequences, FiniteSets, TLC

VARIABLES setup, alice, bob, net, sent, hist, sigma, reference

vars == <<setup, alice, bob, net, sent, hist, sigma, reference>>

(***************************************************************************)
(* Program constants                                                       *)
(***************************************************************************)
RING_SIZE == 11

\* "CLSAG_agg_0", "CLSAG_agg_1", "CLSAG_round" as ASCII bytes
HASH_KEY_CLSAG_AGG_0 == <<67, 76, 83, 65, 71, 95, 97, 103, 103, 95, 48>>

HASH_KEY_CLSAG_AGG_1 == <<67, 76, 83, 65, 71, 95, 97, 103, 103, 95, 49>>

HASH_KEY_CLSAG_ROUND == <<67, 76, 83, 65, 71, 95, 114, 111, 117, 110, 100>>

\* the prime order of the scalar field (stands for l = 2^252 + 277...)
GroupOrder == 10007

\* the modulus and the multiplier of the polynomial fold that stands for
\* reading a digest as an integer
MixModulus == 46337

MixMultiplier == 131

(***************************************************************************)
(* Bounds of the model                                                     *)
(***************************************************************************)
\* secret key shares s'_a, s_b and the adaptor secret r_a range over 1..MaxSecret
MaxSecret == 2

\* each party's rng is a stream fixed by a seed in 1..MaxSeed
MaxSeed == 2

\* the blinding delta z ranges over 0..MaxZ
MaxZ == 1

\* a half response changed in flight is moved by 1..MaxShift
MaxShift == 1

(***************************************************************************)
(* Scalars (curve25519_dalek::scalar::Scalar)                              *)
(***************************************************************************)
Scalar_add(a, b) == (a + b) % GroupOrder

Scalar_sub(a, b) == (a + (GroupOrder - b)) % GroupOrder

Scalar_neg(a) == (GroupOrder - a) % GroupOrder

Scalar_mul(a, b) == (a * b) % GroupOrder

Scalar_invert(a) == CHOOSE x \in 1..(GroupOrder - 1) : (a * x) % GroupOrder = 1

\* Scalar::from(8u8).invert()
Scalar_inv_8 == Scalar_invert(8)

\* Scalar::random(rng): draw number k of the stream with the given seed
Scalar_random(seed, k) == (seed * 1009 + k * 31 + 5) % GroupOrder

Scalar_as_bytes(s) == <<s>>

(***************************************************************************)
(* Points (curve25519_dalek::edwards::EdwardsPoint)                        *)
(***************************************************************************)
ED25519_BASEPOINT_POINT == <<1, 0>>

Point_add(P, Q) == <<(P[1] + Q[1]) % GroupOrder, (P[2] + Q[2]) % GroupOrder>>

Point_neg(P) == <<(GroupOrder - P[1]) % GroupOrder, (GroupOrder - P[2]) % GroupOrder>>

Point_sub(P, Q) == Point_add(P, Point_neg(Q))

Point_mul(s, P) == <<(s * P[1]) % GroupOrder, (s * P[2]) % GroupOrder>>

\* P.compress().as_bytes(): the byte string of a point
compress(P) == <<P[2], P[1]>>

(***************************************************************************)
(* Keccak-256 and the reduction of a digest to a scalar                    *)
(***************************************************************************)
Keccak256(input) == [keccak |-> input]

\* MixMultiplier^n mod MixModulus
RECURSIVE MixPow(_)
MixPow(n) ==
    IF n = 0 THEN 1
    ELSE LET h == MixPow(n \div 2)
         IN  (((h * h) % MixModulus)
              * (IF n % 2 = 1 THEN MixMultiplier ELSE 1)) % MixModulus

\* MixMultiplier^2, ^3 and ^4 mod MixModulus
MixPow2 == MixPow(2)

MixPow3 == MixPow(3)

MixPow4 == MixPow(4)

\* the polynomial sum of (bytes[i] + 1) * MixMultiplier^(hi - i), i in lo..hi,
\* mod MixModulus, taken four bytes at a time from the end
RECURSIVE MixRange(_, _, _)
MixRange(bytes, lo, hi) ==
    IF lo > hi THEN 0
    ELSE IF lo = hi THEN (bytes[lo] + 1) % MixModulus
    ELSE IF lo + 1 = hi
    THEN ((bytes[lo] + 1) * MixMultiplier + bytes[hi] + 1) % MixModulus
    ELSE IF lo + 2 = hi
    THEN ((bytes[lo] + 1) * MixPow2 + (bytes[lo + 1] + 1) * MixMultiplier
          + bytes[hi] + 1) % MixModulus
    ELSE IF lo + 3 = hi
    THEN ((bytes[lo] + 1) * MixPow3 + (bytes[lo + 1] + 1) * MixPow2
          + (bytes[lo + 2] + 1) * MixMultiplier + bytes[hi] + 1) % MixModulus
    ELSE (MixRange(bytes, lo, hi - 4) * MixPow4
          + (((bytes[hi - 3] + 1) * MixPow3 + (bytes[hi - 2] + 1) * MixPow2
              + (bytes[hi - 1] + 1) * MixMultiplier + bytes[hi] + 1)
             % MixModulus)) % MixModulus

\* a digest read as an integer
Mix(bytes) == MixRange(bytes, 1, Len(bytes))

Scalar_from_bytes_mod_order(digest) == Mix(digest.keccak) % GroupOrder

\* hash_edwards_to_edwards::hash_point_to_point: a point outside <G>
hash_point_to_point(P) ==
    <<Mix(<<72, 112>> \o compress(P)) % GroupOrder,
      1 + (Mix(<<112, 72>> \o compress(P)) % (GroupOrder - 1))>>

(***************************************************************************)
(* Rust arrays and the Ring container                                      *)
(***************************************************************************)
At(s, i) == s[i + 1]

RECURSIVE Flatten(_)
Flatten(ss) == IF ss = <<>> THEN <<>> ELSE Head(ss) \o Flatten(Tail(ss))

\* Ring::new: the points and their concatenated compressions (Ring::as_ref)
Ring_new(points) ==
    [points |-> points,
     bytes  |-> Flatten([i \in 1..Len(points) |-> compress(points[i])])]

(***************************************************************************)
(* CLSAG signing kernel                                                    *)
(***************************************************************************)
AggregationHashes_hash(domain_prefix, ring, commitment_ring, I, z_key_image, pseudo_output_commitment) ==
    Scalar_from_bytes_mod_order(Keccak256(
        domain_prefix \o ring \o commitment_ring \o I \o z_key_image
        \o pseudo_output_commitment))

AggregationHashes_new(ring, commitment_ring, I, pseudo_output_commitment, D) ==
    [mu_P |-> AggregationHashes_hash(HASH_KEY_CLSAG_AGG_0, ring.bytes,
                  commitment_ring.bytes, compress(I), compress(D),
                  compress(pseudo_output_commitment)),
     mu_C |-> AggregationHashes_hash(HASH_KEY_CLSAG_AGG_1, ring.bytes,
                  commitment_ring.bytes, compress(I), compress(D),
                  compress(pseudo_output_commitment))]

compute_L(h_prev, mus, s_i, pk_i, adjusted_commitment_i) ==
    LET c_p == Scalar_mul(h_prev, mus.mu_P)
        c_c == Scalar_mul(h_prev, mus.mu_C)
    IN  Point_add(Point_add(Point_mul(s_i, ED25519_BASEPOINT_POINT),
                            Point_mul(c_p, pk_i)),
                  Point_mul(c_c, adjusted_commitment_i))

compute_R(h_prev, mus, pk_i, s_i, I, D) ==
    LET c_p == Scalar_mul(h_prev, mus.mu_P)
        c_c == Scalar_mul(h_prev, mus.mu_C)
        H_p_pk_i == hash_point_to_point(pk_i)
    IN  Point_add(Point_add(Point_mul(s_i, H_p_pk_i), Point_mul(c_p, I)),
                  Point_mul(c_c, D))

\* Result::Ok
Ok(v) == [ok |-> TRUE, value |-> v]

challenge(prefix, s_i, pk_i, adjusted_commitment_i, D, h_prev, I, mus) ==
    LET L_i == compute_L(h_prev, mus, s_i, pk_i, adjusted_commitment_i)
        R_i == compute_R(h_prev, mus, pk_i, s_i, I, D)
    IN  Ok(Scalar_from_bytes_mod_order(Keccak256(
            prefix \o compress(L_i) \o compress(R_i))))

clsag_round_hash_prefix(ring, commitment_ring, pseudo_output_commitment, msg) ==
    HASH_KEY_CLSAG_ROUND \o ring \o commitment_ring
    \o compress(pseudo_output_commitment) \o msg

\* h_0 of sign: the hash of the prefix and the two spliced nonce points
sign_h_0(prefix, L, R) ==
    Scalar_from_bytes_mod_order(Keccak256(prefix \o compress(L) \o compress(R)))

\* the aggregation hashes as sign asks for them: the fifth argument, named D
\* by AggregationHashes::new, is given H_p_pk
sign_mus(ring, commitment_ring, I, pseudo_output_commitment, H_p_pk) ==
    AggregationHashes_new(ring, commitment_ring, I, pseudo_output_commitment,
                          H_p_pk)

\* the commitment sign pairs with the decoy ring[i + 1]
sign_adjusted_commitment(commitment_ring, pseudo_output_commitment, i) ==
    Point_sub(At(commitment_ring.points, i), pseudo_output_commitment)

\* the fold over fake_responses.iter().enumerate(), from index i on; each
\* challenge is unwrapped before the next step
RECURSIVE sign_fold(_, _, _, _, _, _, _, _, _, _)
sign_fold(h_prev, i, fake_responses, ring, commitment_ring, pseudo_output_commitment, prefix, D_inv_8, I, mus) ==
    IF i >= Len(fake_responses) THEN h_prev
    ELSE LET pk_i == At(ring.points, i + 1)
             adjusted_commitment_i ==
                 sign_adjusted_commitment(commitment_ring,
                                          pseudo_output_commitment, i)
             h == challenge(prefix, At(fake_responses, i), pk_i,
                            adjusted_commitment_i, D_inv_8, h_prev, I, mus)
         IN  IF h.ok
             THEN sign_fold(h.value, i + 1, fake_responses, ring,
                            commitment_ring, pseudo_output_commitment, prefix,
                            D_inv_8, I, mus)
             ELSE "panic: unwrap on an Err value"

\* h_last of sign: the challenge after the last decoy
sign_h_last(h_0, fake_responses, ring, commitment_ring, pseudo_output_commitment, prefix, D_inv_8, I, mus) ==
    sign_fold(h_0, 0, fake_responses, ring, commitment_ring,
              pseudo_output_commitment, prefix, D_inv_8, I, mus)

sign_s_last(alpha, h_last, mus, signing_key, z) ==
    Scalar_sub(alpha,
               Scalar_mul(h_last, Scalar_add(Scalar_mul(mus.mu_P, signing_key),
                                             Scalar_mul(mus.mu_C, z))))

\* sign with the real response in the first slot of the response vector
sign_real_response_first(fake_responses, ring, commitment_ring, z, H_p_pk, pseudo_output_commitment, L, R, I, msg, signing_key, alpha) ==
    LET D == Point_mul(z, H_p_pk)
        D_inv_8 == Point_mul(Scalar_inv_8, D)
        prefix == clsag_round_hash_prefix(ring.bytes, commitment_ring.bytes,
                                          pseudo_output_commitment, msg)
        h_0 == sign_h_0(prefix, L, R)
        mus == sign_mus(ring, commitment_ring, I, pseudo_output_commitment,
                        H_p_pk)
        h_last == sign_h_last(h_0, fake_responses, ring, commitment_ring,
                              pseudo_output_commitment, prefix, D_inv_8, I, mus)
        s_last == sign_s_last(alpha, h_last, mus, signing_key, z)
    IN  [responses |-> <<s_last>> \o fake_responses,
         h_0 |-> h_0, I |-> I, D |-> D]

sign(fake_responses, ring, commitment_ring, z, H_p_pk, pseudo_output_commitment, L, R, I, msg, signing_key, alpha) ==
    LET D == Point_mul(z, H_p_pk)
        D_inv_8 == Point_mul(Scalar_inv_8, D)
        prefix == clsag_round_hash_prefix(ring.bytes, commitment_ring.bytes,
                                          pseudo_output_commitment, msg)
        h_0 == sign_h_0(prefix, L, R)
        mus == sign_mus(ring, commitment_ring, I, pseudo_output_commitment,
                        H_p_pk)
        h_last == sign_h_last(h_0, fake_responses, ring, commitment_ring,
                              pseudo_output_commitment, prefix, D_inv_8, I, mus)
        s_last == sign_s_last(alpha, h_last, mus, signing_key, z)
    IN  [responses |-> Append(fake_responses, s_last),
         h_0 |-> h_0, I |-> I, D |-> D]

(***************************************************************************)
(* Signature, HalfAdaptorSignature, AdaptorSignature                       *)
(***************************************************************************)
\* complete that doubles the party's own half and leaves the other out
HalfAdaptorSignature_complete_alone(self, s_other_half) ==
    [s_0 |-> Scalar_add(self.s_0_half, self.s_0_half),
     fake_responses |-> self.fake_responses,
     h_0 |-> self.h_0, I |-> self.I, D |-> self.D]

HalfAdaptorSignature_complete(self, s_other_half) ==
    [s_0 |-> Scalar_add(self.s_0_half, s_other_half),
     fake_responses |-> self.fake_responses,
     h_0 |-> self.h_0, I |-> self.I, D |-> self.D]

\* adapt with the secret subtracted instead of added
AdaptorSignature_adapt_sub(self, y) ==
    LET r_last == Scalar_sub(self.s_0, y)
    IN  [responses |-> self.fake_responses \o <<r_last>>,
         h_0 |-> self.h_0, I |-> self.I, D |-> self.D]

AdaptorSignature_adapt(self, y) ==
    LET r_last == Scalar_add(self.s_0, y)
    IN  [responses |-> self.fake_responses \o <<r_last>>,
         h_0 |-> self.h_0, I |-> self.I, D |-> self.D]

\* From<Signature> for monero::util::ringct::Clsag
Clsag_from(from) ==
    [s  |-> [i \in 1..Len(from.responses) |->
                Scalar_as_bytes(from.responses[i])],
     c1 |-> Scalar_as_bytes(from.h_0),
     D  |-> compress(from.D)]

\* Signature::verify as written: building the arguments of the first call of
\* challenge reaches todo!(), so every signature with a response panics
Signature_verify(self, ring, msg) ==
    IF Len(self.responses) = 0 THEN "Ok(true)"
    ELSE "panic: not yet implemented"

\* The verification equation the verifier is to implement: the loop of
\* Signature::verify with the arguments it leaves open filled in from the
\* kernel's description (mu hashed over I and D, D' = D/8, C_i - C_pseudo).
RECURSIVE recurrence_fold(_, _, _, _, _, _, _, _)
recurrence_fold(h, i, self, ring, commitment_ring, pseudo_output_commitment, prefix, mus) ==
    IF i >= Len(self.responses) THEN h
    ELSE LET pk_i == At(ring.points, (i + 1) % RING_SIZE)
             next == challenge(prefix, At(self.responses, i), pk_i,
                         Point_sub(At(commitment_ring.points,
                                      (i + 1) % RING_SIZE),
                                   pseudo_output_commitment),
                         Point_mul(Scalar_inv_8, self.D), h, self.I, mus)
         IN  IF next.ok
             THEN recurrence_fold(next.value, i + 1, self, ring,
                                  commitment_ring, pseudo_output_commitment,
                                  prefix, mus)
             ELSE next

recurrence_closes(self, ring, commitment_ring, pseudo_output_commitment, msg) ==
    recurrence_fold(self.h_0, 0, self, ring, commitment_ring,
        pseudo_output_commitment,
        clsag_round_hash_prefix(ring.bytes, commitment_ring.bytes,
                                pseudo_output_commitment, msg),
        AggregationHashes_new(ring, commitment_ring, self.I,
                              pseudo_output_commitment, self.D))
    = self.h_0

(***************************************************************************)
(* DLEQ proof                                                              *)
(***************************************************************************)
DleqProof_challenge(G, xG, H, xH, rG, rH) ==
    Scalar_from_bytes_mod_order(Keccak256(
        compress(G) \o compress(xG) \o compress(H) \o compress(xH)
        \o compress(rG) \o compress(rH)))

\* a prover that computes s = r - c * x
DleqProof_new_minus(G, xG, H, xH, x, r) ==
    LET rG == Point_mul(r, G)
        rH == Point_mul(r, H)
        c  == DleqProof_challenge(G, xG, H, xH, rG, rH)
    IN  [s |-> Scalar_sub(r, Scalar_mul(c, x)), c |-> c]

\* r is the scalar DleqProof::new draws from the rng
DleqProof_new(G, xG, H, xH, x, r) ==
    LET rG == Point_mul(r, G)
        rH == Point_mul(r, H)
        c  == DleqProof_challenge(G, xG, H, xH, rG, rH)
    IN  [s |-> Scalar_add(r, Scalar_mul(c, x)), c |-> c]

\* TRUE for Ok(()), FALSE for the error "invalid DLEQ proof"
DleqProof_verify(self, G, xG, H, xH) ==
    LET rG == Point_add(Point_mul(self.s, G),
                        Point_mul(Scalar_neg(self.c), xG))
        rH == Point_add(Point_mul(self.s, H),
                        Point_mul(Scalar_neg(self.c), xH))
        c_prime == DleqProof_challenge(G, xG, H, xH, rG, rH)
    IN  self.c = c_prime

(***************************************************************************)
(* Commitment and Opening                                                  *)
(***************************************************************************)
\* a commitment that leaves T_a out of the hash
Commitment_new_without_T_a(fake_responses, I_a, I_hat_a, T_a) ==
    Keccak256(
        Flatten([i \in 1..Len(fake_responses) |->
                    Scalar_as_bytes(fake_responses[i])])
        \o compress(I_a) \o compress(I_hat_a))

Commitment_new(fake_responses, I_a, I_hat_a, T_a) ==
    Keccak256(
        Flatten([i \in 1..Len(fake_responses) |->
                    Scalar_as_bytes(fake_responses[i])])
        \o compress(I_a) \o compress(I_hat_a) \o compress(T_a))

\* an opening that stores I_a and I_hat_a in each other's place
Opening_new_swapped(fake_responses, I_a, I_hat_a, T_a) ==
    [fake_responses |-> fake_responses, I_a |-> I_hat_a, I_hat_a |-> I_a,
     T_a |-> T_a]

Opening_new(fake_responses, I_a, I_hat_a, T_a) ==
    [fake_responses |-> fake_responses, I_a |-> I_a, I_hat_a |-> I_hat_a,
     T_a |-> T_a]

Opening_open(self, commitment) ==
    LET self_commitment == Commitment_new(self.fake_responses, self.I_a,
                                          self.I_hat_a, self.T_a)
    IN  IF self_commitment = commitment
        THEN [ok |-> TRUE, fake_responses |-> self.fake_responses,
              I_a |-> self.I_a, I_hat_a |-> self.I_hat_a, T_a |-> self.T_a]
        ELSE [ok |-> FALSE, error |-> "opening does not match commitment"]

(***************************************************************************)
(* Alice                                                                   *)
(***************************************************************************)
\* the value a failed receive leaves behind: the state was consumed
Err(e) == [state |-> "Err", error |-> e]

\* seed: the rng handed to Alice0::new, which draws the 10 decoy responses and
\* then alpha_a
Alice0_new(ring, msg, commitment_ring, pseudo_output_commitment, R_a, R_prime_a, s_prime_a, seed) ==
    LET fake_responses == [i \in 1..(RING_SIZE - 1) |-> Scalar_random(seed, i)]
        alpha_a == Scalar_random(seed, RING_SIZE)
        p_k == At(ring, 0)
        H_p_pk == hash_point_to_point(p_k)
    IN  [state |-> "Alice0",
         ring |-> Ring_new(ring),
         fake_responses |-> fake_responses,
         commitment_ring |-> Ring_new(commitment_ring),
         pseudo_output_commitment |-> pseudo_output_commitment,
         msg |-> msg,
         R_a |-> R_a,
         R_prime_a |-> R_prime_a,
         s_prime_a |-> s_prime_a,
         alpha_a |-> alpha_a,
         H_p_pk |-> H_p_pk,
         I_a |-> Point_mul(s_prime_a, H_p_pk),
         I_hat_a |-> Point_mul(alpha_a, H_p_pk),
         T_a |-> Point_mul(alpha_a, ED25519_BASEPOINT_POINT)]

\* a next_message whose proof is made with the key share as the witness
Alice0_next_message_with_key_share(self, r) ==
    [pi_a |-> DleqProof_new(ED25519_BASEPOINT_POINT, self.T_a, self.H_p_pk,
                            self.I_hat_a, self.s_prime_a, r),
     c_a  |-> Commitment_new(self.fake_responses, self.I_a, self.I_hat_a,
                             self.T_a)]

\* r: the scalar DleqProof::new draws from the rng
Alice0_next_message(self, r) ==
    [pi_a |-> DleqProof_new(ED25519_BASEPOINT_POINT, self.T_a, self.H_p_pk,
                            self.I_hat_a, self.alpha_a, r),
     c_a  |-> Commitment_new(self.fake_responses, self.I_a, self.I_hat_a,
                             self.T_a)]

\* the decoy responses, L, R and I that Alice0::receive hands to sign
Alice0_receive_args(self, msg) ==
    [fake_responses |-> self.fake_responses,
     L |-> Point_add(Point_add(self.T_a, msg.T_b), self.R_a),
     R |-> Point_add(Point_add(self.I_hat_a, msg.I_hat_b), self.R_prime_a),
     I |-> Point_add(self.I_a, msg.I_b)]

Alice0_receive_sign(self, msg, z) ==
    LET args == Alice0_receive_args(self, msg)
    IN  sign(args.fake_responses, self.ring, self.commitment_ring, z,
             self.H_p_pk, self.pseudo_output_commitment, args.L, args.R,
             args.I, self.msg, self.s_prime_a, self.alpha_a)

\* Alice0::receive on a borrowed state: a failed check leaves Alice0 in place
Alice0_receive_retry(self, msg, z) ==
    IF ~DleqProof_verify(msg.pi_b, ED25519_BASEPOINT_POINT, msg.T_b,
                         self.H_p_pk, msg.I_hat_b)
    THEN self
    ELSE LET sig == Alice0_receive_sign(self, msg, z)
         IN  [state |-> "Alice1",
              fake_responses |-> self.fake_responses,
              I_a |-> self.I_a,
              I_hat_a |-> self.I_hat_a,
              T_a |-> self.T_a,
              sig |-> [s_0_half |-> At(sig.responses, 10),
                       fake_responses |-> self.fake_responses,
                       h_0 |-> sig.h_0, I |-> sig.I, D |-> sig.D]]

\* Alice0::receive without the check of pi_b
Alice0_receive_unchecked(self, msg, z) ==
    LET sig == Alice0_receive_sign(self, msg, z)
    IN  [state |-> "Alice1",
         fake_responses |-> self.fake_responses,
         I_a |-> self.I_a,
         I_hat_a |-> self.I_hat_a,
         T_a |-> self.T_a,
         sig |-> [s_0_half |-> At(sig.responses, 10),
                  fake_responses |-> self.fake_responses,
                  h_0 |-> sig.h_0, I |-> sig.I, D |-> sig.D]]

Alice0_receive(self, msg, z) ==
    IF ~DleqProof_verify(msg.pi_b, ED25519_BASEPOINT_POINT, msg.T_b,
                         self.H_p_pk, msg.I_hat_b)
    THEN Err("invalid DLEQ proof")
    ELSE LET sig == Alice0_receive_sign(self, msg, z)
         IN  [state |-> "Alice1",
              fake_responses |-> self.fake_responses,
              I_a |-> self.I_a,
              I_hat_a |-> self.I_hat_a,
              T_a |-> self.T_a,
              sig |-> [s_0_half |-> At(sig.responses, 10),
                       fake_responses |-> self.fake_responses,
                       h_0 |-> sig.h_0, I |-> sig.I, D |-> sig.D]]

Alice1_next_message(self) ==
    [d_a |-> Opening_new(self.fake_responses, self.I_a, self.I_hat_a, self.T_a),
     s_0_a |-> self.sig.s_0_half]

\* a receive that borrows the state instead of consuming it
Alice1_receive_borrowed(self, msg) == self

Alice1_receive(self, msg) ==
    [state |-> "Alice2",
     adaptor_sig |-> HalfAdaptorSignature_complete(self.sig, msg.s_0_b)]

(***************************************************************************)
(* Bob                                                                     *)
(***************************************************************************)
\* Bob0::new with I_b taken over the hash of ring[1]
Bob0_new_image_over_decoy(ring, msg, commitment_ring, pseudo_output_commitment, R_a, R_prime_a, s_b, seed) ==
    LET alpha_b == Scalar_random(seed, 1)
        p_k == At(ring, 0)
        H_p_pk == hash_point_to_point(p_k)
    IN  [state |-> "Bob0",
         ring |-> Ring_new(ring),
         msg |-> msg,
         commitment_ring |-> Ring_new(commitment_ring),
         pseudo_output_commitment |-> pseudo_output_commitment,
         R_a |-> R_a,
         R_prime_a |-> R_prime_a,
         s_b |-> s_b,
         alpha_b |-> alpha_b,
         H_p_pk |-> H_p_pk,
         I_b |-> Point_mul(s_b, hash_point_to_point(At(ring, 1))),
         I_hat_b |-> Point_mul(alpha_b, H_p_pk),
         T_b |-> Point_mul(alpha_b, ED25519_BASEPOINT_POINT)]

\* seed: the rng handed to Bob0::new, which draws alpha_b
Bob0_new(ring, msg, commitment_ring, pseudo_output_commitment, R_a, R_prime_a, s_b, seed) ==
    LET alpha_b == Scalar_random(seed, 1)
        p_k == At(ring, 0)
        H_p_pk == hash_point_to_point(p_k)
    IN  [state |-> "Bob0",
         ring |-> Ring_new(ring),
         msg |-> msg,
         commitment_ring |-> Ring_new(commitment_ring),
         pseudo_output_commitment |-> pseudo_output_commitment,
         R_a |-> R_a,
         R_prime_a |-> R_prime_a,
         s_b |-> s_b,
         alpha_b |-> alpha_b,
         H_p_pk |-> H_p_pk,
         I_b |-> Point_mul(s_b, H_p_pk),
         I_hat_b |-> Point_mul(alpha_b, H_p_pk),
         T_b |-> Point_mul(alpha_b, ED25519_BASEPOINT_POINT)]

\* a Bob0::receive that shifts Bob's nonce by the challenge of pi_a
Bob0_receive_rederiving(self, msg) ==
    LET alpha_b == Scalar_add(self.alpha_b, msg.pi_a.c)
    IN  [state |-> "Bob1",
         ring |-> self.ring,
         msg |-> self.msg,
         commitment_ring |-> self.commitment_ring,
         pseudo_output_commitment |-> self.pseudo_output_commitment,
         R_a |-> self.R_a,
         R_prime_a |-> self.R_prime_a,
         s_b |-> self.s_b,
         alpha_b |-> alpha_b,
         H_p_pk |-> self.H_p_pk,
         I_b |-> self.I_b,
         I_hat_b |-> Point_mul(alpha_b, self.H_p_pk),
         T_b |-> Point_mul(alpha_b, ED25519_BASEPOINT_POINT),
         pi_a |-> msg.pi_a,
         c_a |-> msg.c_a]

Bob0_receive(self, msg) ==
    [state |-> "Bob1",
     ring |-> self.ring,
     msg |-> self.msg,
     commitment_ring |-> self.commitment_ring,
     pseudo_output_commitment |-> self.pseudo_output_commitment,
     R_a |-> self.R_a,
     R_prime_a |-> self.R_prime_a,
     s_b |-> self.s_b,
     alpha_b |-> self.alpha_b,
     H_p_pk |-> self.H_p_pk,
     I_b |-> self.I_b,
     I_hat_b |-> self.I_hat_b,
     T_b |-> self.T_b,
     pi_a |-> msg.pi_a,
     c_a |-> msg.c_a]

\* r: the scalar DleqProof::new draws from the rng
Bob1_next_message(self, r) ==
    [I_b |-> self.I_b,
     T_b |-> self.T_b,
     I_hat_b |-> self.I_hat_b,
     pi_b |-> DleqProof_new(ED25519_BASEPOINT_POINT, self.T_b, self.H_p_pk,
                            self.I_hat_b, self.alpha_b, r)]

\* L = T_a + T_b without R_a
Bob1_receive_args_without_R_a(self, opened) ==
    [fake_responses |-> opened.fake_responses,
     L |-> Point_add(opened.T_a, self.T_b),
     R |-> Point_add(Point_add(opened.I_hat_a, self.I_hat_b), self.R_prime_a),
     I |-> Point_add(opened.I_a, self.I_b)]

\* the decoy responses, L, R and I that Bob1::receive hands to sign
Bob1_receive_args(self, opened) ==
    [fake_responses |-> opened.fake_responses,
     L |-> Point_add(Point_add(opened.T_a, self.T_b), self.R_a),
     R |-> Point_add(Point_add(opened.I_hat_a, self.I_hat_b), self.R_prime_a),
     I |-> Point_add(opened.I_a, self.I_b)]

Bob1_receive_sign(self, opened, z) ==
    LET args == Bob1_receive_args(self, opened)
    IN  sign(args.fake_responses, self.ring, self.commitment_ring, z,
             self.H_p_pk, self.pseudo_output_commitment, args.L, args.R,
             args.I, self.msg, self.s_b, self.alpha_b)

\* Bob1::receive with pi_a verified before the opening is checked
Bob1_receive_swapped(self, msg, z) ==
    IF ~DleqProof_verify(self.pi_a, ED25519_BASEPOINT_POINT,
                         msg.d_a.T_a, self.H_p_pk, msg.d_a.I_hat_a)
    THEN Err("invalid DLEQ proof")
    ELSE LET opened == Opening_open(msg.d_a, self.c_a)
         IN  IF ~opened.ok THEN Err(opened.error)
             ELSE LET sig == Bob1_receive_sign(self, opened, z)
                      s_0_b == At(sig.responses, 10)
                  IN  [state |-> "Bob2",
                       s_0_b |-> s_0_b,
                       adaptor_sig |-> HalfAdaptorSignature_complete(
                           [s_0_half |-> s_0_b,
                            fake_responses |-> opened.fake_responses,
                            h_0 |-> sig.h_0, I |-> sig.I, D |-> sig.D],
                           msg.s_0_a)]

Bob1_receive(self, msg, z) ==
    LET opened == Opening_open(msg.d_a, self.c_a)
    IN  IF ~opened.ok THEN Err(opened.error)
        ELSE IF ~DleqProof_verify(self.pi_a, ED25519_BASEPOINT_POINT,
                                  opened.T_a, self.H_p_pk, opened.I_hat_a)
        THEN Err("invalid DLEQ proof")
        ELSE LET sig == Bob1_receive_sign(self, opened, z)
                 s_0_b == At(sig.responses, 10)
             IN  [state |-> "Bob2",
                  s_0_b |-> s_0_b,
                  adaptor_sig |-> HalfAdaptorSignature_complete(
                      [s_0_half |-> s_0_b,
                       fake_responses |-> opened.fake_responses,
                       h_0 |-> sig.h_0, I |-> sig.I, D |-> sig.D],
                      msg.s_0_a)]

Bob2_next_message(self) == [s_0_b |-> self.s_0_b]

(***************************************************************************)
(* The harness of tests::sign_and_verify_success: keys, rings, commitments *)
(***************************************************************************)
\* b"hello world, monero is amazing!!"
msg_to_sign ==
    <<104, 101, 108, 108, 111, 32, 119, 111, 114, 108, 100, 44, 32, 109, 111,
      110, 101, 114, 111, 32, 105, 115, 32, 97, 109, 97, 122, 105, 110, 103,
      33, 33>>

\* the stream of the harness's own rng, fixed by the streams of the parties
harness_seed(seed_a, seed_b) == 10 + 3 * seed_a + seed_b

\* ring[0] = pk, ring[1..] filled with x * G for fresh x
harness_ring(pk, seed) ==
    [i \in 1..RING_SIZE |->
        IF i = 1 THEN pk
        ELSE Point_mul(Scalar_random(seed, i), ED25519_BASEPOINT_POINT)]

\* commitment_ring[i] = x * G for fresh x (index 0: the real blinding)
harness_commitment_ring(seed) ==
    [i \in 1..RING_SIZE |->
        Point_mul(Scalar_random(seed, RING_SIZE + i), ED25519_BASEPOINT_POINT)]

\* the ring with ring[3] replaced by a fresh point
replace_ring_3(ring, seed) ==
    [ring EXCEPT ![4] = Point_mul(Scalar_random(seed, 2 * RING_SIZE + 1),
                                  ED25519_BASEPOINT_POINT)]

\* the pseudo-output commitment: commitment_ring[0] - z * G, which for the
\* z = 0 of the test is commitment_ring[0]
harness_pseudo_output_commitment(commitment_ring, z) ==
    Point_sub(At(commitment_ring, 0), Point_mul(z, ED25519_BASEPOINT_POINT))

\* same_ring: both parties are given the ring; otherwise Bob is given the
\* ring with ring[3] replaced
harness(s_prime_a, s_b, r_a, z, seed_a, seed_b, same_ring) ==
    LET pk == Point_mul(Scalar_add(s_prime_a, s_b), ED25519_BASEPOINT_POINT)
        seed == harness_seed(seed_a, seed_b)
        ring == harness_ring(pk, seed)
        commitment_ring == harness_commitment_ring(seed)
    IN  [s_prime_a |-> s_prime_a,
         s_b |-> s_b,
         r_a |-> r_a,
         z |-> z,
         seed_a |-> seed_a,
         seed_b |-> seed_b,
         pk |-> pk,
         R_a |-> Point_mul(r_a, ED25519_BASEPOINT_POINT),
         R_prime_a |-> Point_mul(r_a, hash_point_to_point(pk)),
         ring |-> ring,
         ring_of_bob |-> IF same_ring THEN ring ELSE replace_ring_3(ring, seed),
         commitment_ring |-> commitment_ring,
         pseudo_output_commitment |->
             harness_pseudo_output_commitment(commitment_ring, z),
         msg |-> msg_to_sign]

(***************************************************************************)
(* State machine                                                           *)
(***************************************************************************)
None == [none |-> TRUE]

\* how the message in flight was changed, and what a recipient has taken
NoTamper == <<"none", 0>>

NotReceived == <<"not received", 0>>

Messages == 0..3

Init ==
    /\ setup \in {harness(s_prime_a, s_b, r_a, z, seed_a, seed_b, same_ring) :
                    s_prime_a \in 1..MaxSecret, s_b \in 1..MaxSecret,
                    r_a \in 1..MaxSecret, z \in 0..MaxZ,
                    seed_a \in 1..MaxSeed, seed_b \in 1..MaxSeed,
                    same_ring \in BOOLEAN}
    /\ alice = Alice0_new(setup.ring, setup.msg, setup.commitment_ring,
                          setup.pseudo_output_commitment, setup.R_a,
                          setup.R_prime_a, setup.s_prime_a, setup.seed_a)
    /\ bob = Bob0_new(setup.ring_of_bob, setup.msg, setup.commitment_ring,
                      setup.pseudo_output_commitment, setup.R_a,
                      setup.R_prime_a, setup.s_b, setup.seed_b)
    /\ net = [k \in Messages |-> None]
    /\ sent = [k \in Messages |-> 0]
    /\ hist = [kernelA |-> 0, kernelB |-> 0, halfA |-> <<>>, halfB |-> <<>>,
               argsA |-> <<>>, argsB |-> <<>>,
               recv |-> [st \in {"Alice0", "Alice1", "Bob0", "Bob1"} |-> 0],
               inflight |-> [k \in Messages |-> NoTamper],
               got |-> [k \in Messages |-> NotReceived]]
    /\ sigma = None
    /\ reference = None

\* a message leaves its sender; each next_message is called once, as in the
\* exchange of the harness
Send(k, m) ==
    /\ sent[k] = 0
    /\ net' = [net EXCEPT ![k] = m]
    /\ sent' = [sent EXCEPT ![k] = @ + 1]
    /\ hist' = [hist EXCEPT !.inflight[k] = NoTamper]

\* the message in flight is changed before its recipient takes it
Tamper(k, how, m) ==
    /\ net[k] # None
    /\ hist.inflight[k] = NoTamper
    /\ hist.got[k] = NotReceived
    /\ net' = [net EXCEPT ![k] = m]
    /\ hist' = [hist EXCEPT !.inflight[k] = how]
    /\ UNCHANGED <<setup, alice, bob, sent, sigma, reference>>

AliceSend0 ==
    /\ alice.state = "Alice0"
    /\ Send(0, Alice0_next_message(alice,
                   Scalar_random(setup.seed_a, RING_SIZE + 1)))
    /\ UNCHANGED <<setup, alice, bob, sigma, reference>>

\* the proof pi_a is replaced by another pair of scalars
Tamper0 ==
    /\ net[0] # None
    /\ Tamper(0, <<"pi_a", 0>>,
              [net[0] EXCEPT !.pi_a.s = Scalar_add(@, 1)])

BobReceive0 ==
    /\ bob.state = "Bob0"
    /\ net[0] # None
    /\ bob' = Bob0_receive(bob, net[0])
    /\ hist' = [hist EXCEPT !.recv["Bob0"] = @ + 1,
                            !.got[0] = hist.inflight[0]]
    /\ UNCHANGED <<setup, alice, net, sent, sigma, reference>>

\* a Bob who emits Message1 without having received Message0
BobSend1_early ==
    /\ bob.state \in {"Bob0", "Bob1"}
    /\ Send(1, Bob1_next_message(bob, Scalar_random(setup.seed_b, 2)))
    /\ UNCHANGED <<setup, alice, bob, sigma, reference>>

BobSend1 ==
    /\ bob.state = "Bob1"
    /\ Send(1, Bob1_next_message(bob, Scalar_random(setup.seed_b, 2)))
    /\ UNCHANGED <<setup, alice, bob, sigma, reference>>

\* I_hat_b is replaced by I_hat_b + G; pi_b is kept
Tamper1 ==
    /\ net[1] # None
    /\ Tamper(1, <<"I_hat_b", 0>>,
              [net[1] EXCEPT !.I_hat_b = Point_add(@, ED25519_BASEPOINT_POINT)])

\* Alice0::receive called again on a copy of Alice0 kept by the caller
AliceReceive1_on_kept_state ==
    LET kept == Alice0_new(setup.ring, setup.msg, setup.commitment_ring,
                           setup.pseudo_output_commitment, setup.R_a,
                           setup.R_prime_a, setup.s_prime_a, setup.seed_a)
    IN  /\ alice.state \in {"Alice0", "Alice1"}
        /\ net[1] # None
        /\ alice' = Alice0_receive(kept, net[1], setup.z)
        /\ hist' = [hist EXCEPT
                      !.recv["Alice0"] = @ + 1,
                      !.got[1] = hist.inflight[1],
                      !.kernelA = IF alice'.state = "Alice1" THEN @ + 1 ELSE @,
                      !.halfA = IF alice'.state = "Alice1"
                                THEN <<alice'.sig.s_0_half>> ELSE @,
                      !.argsA = IF alice'.state = "Alice1"
                                THEN <<Alice0_receive_args(kept, net[1])>>
                                ELSE @]
        /\ UNCHANGED <<setup, bob, net, sent, sigma, reference>>

AliceReceive1 ==
    /\ alice.state = "Alice0"
    /\ net[1] # None
    /\ alice' = Alice0_receive(alice, net[1], setup.z)
    /\ hist' = [hist EXCEPT
                  !.recv["Alice0"] = @ + 1,
                  !.got[1] = hist.inflight[1],
                  !.kernelA = IF alice'.state = "Alice1" THEN @ + 1 ELSE @,
                  !.halfA = IF alice'.state = "Alice1"
                            THEN <<alice'.sig.s_0_half>> ELSE @,
                  !.argsA = IF alice'.state = "Alice1"
                            THEN <<Alice0_receive_args(alice, net[1])>> ELSE @]
    /\ UNCHANGED <<setup, bob, net, sent, sigma, reference>>

AliceSend2 ==
    /\ alice.state = "Alice1"
    /\ Send(2, Alice1_next_message(alice))
    /\ UNCHANGED <<setup, alice, bob, sigma, reference>>

\* one component of the opening d_a is changed
Tamper2Kinds ==
    {<<"fake_responses", i>> : i \in 0..(RING_SIZE - 2)}
    \cup {<<"I_a", 0>>, <<"I_hat_a", 0>>, <<"T_a", 0>>}

Tamper2Opening(d_a, how) ==
    IF how[1] = "fake_responses"
    THEN [d_a EXCEPT !.fake_responses[how[2] + 1] = Scalar_add(@, 1)]
    ELSE IF how[1] = "I_a"
    THEN [d_a EXCEPT !.I_a = Point_add(@, ED25519_BASEPOINT_POINT)]
    ELSE IF how[1] = "I_hat_a"
    THEN [d_a EXCEPT !.I_hat_a = Point_add(@, ED25519_BASEPOINT_POINT)]
    ELSE [d_a EXCEPT !.T_a = Point_add(@, ED25519_BASEPOINT_POINT)]

Tamper2 ==
    /\ net[2] # None
    /\ \E how \in Tamper2Kinds :
         Tamper(2, how, [net[2] EXCEPT !.d_a = Tamper2Opening(@, how)])

\* the ways the half response of Message2 or Message3 is changed
HalfKinds == {<<"s_0", d>> : d \in 1..MaxShift}

\* the half response s_0_a is replaced by another scalar; d_a is kept
Tamper2Half ==
    /\ net[2] # None
    /\ \E how \in HalfKinds :
         Tamper(2, how, [net[2] EXCEPT !.s_0_a = Scalar_add(@, how[2])])

BobReceive2 ==
    /\ bob.state = "Bob1"
    /\ net[2] # None
    /\ bob' = Bob1_receive(bob, net[2], setup.z)
    /\ hist' = [hist EXCEPT
                  !.recv["Bob1"] = @ + 1,
                  !.got[2] = hist.inflight[2],
                  !.kernelB = IF bob'.state = "Bob2" THEN @ + 1 ELSE @,
                  !.halfB = IF bob'.state = "Bob2" THEN <<bob'.s_0_b>> ELSE @,
                  !.argsB = IF bob'.state = "Bob2"
                            THEN <<Bob1_receive_args(bob, net[2].d_a)>> ELSE @]
    /\ UNCHANGED <<setup, alice, net, sent, sigma, reference>>

BobSend3 ==
    /\ bob.state = "Bob2"
    /\ Send(3, Bob2_next_message(bob))
    /\ UNCHANGED <<setup, alice, bob, sigma, reference>>

\* the half response s_0_b is replaced by another scalar
Tamper3 ==
    /\ net[3] # None
    /\ \E how \in HalfKinds :
         Tamper(3, how, [net[3] EXCEPT !.s_0_b = Scalar_add(@, how[2])])

AliceReceive3 ==
    /\ alice.state = "Alice1"
    /\ net[3] # None
    /\ alice' = Alice1_receive(alice, net[3])
    /\ hist' = [hist EXCEPT !.recv["Alice1"] = @ + 1,
                            !.got[3] = hist.inflight[3]]
    /\ UNCHANGED <<setup, bob, net, sent, sigma, reference>>

\* every message was received as it was made
AllAsMade == \A k \in Messages : hist.got[k] = NoTamper

\* alice.adaptor_sig.adapt(y), called as in the test at the end of an exchange
\* whose messages arrived as made; sigma keeps the adaptor signature it
\* consumed
AliceAdapt ==
    /\ alice.state = "Alice2"
    /\ AllAsMade
    /\ sigma = None
    /\ \E y \in 0..(MaxSecret + 1) :
         sigma' = [signature |-> AdaptorSignature_adapt(alice.adaptor_sig, y),
                   adaptor |-> alice.adaptor_sig,
                   y |-> y,
                   clsag |-> <<>>]
    /\ UNCHANGED <<setup, alice, bob, net, sent, hist, reference>>

\* the signature made with r_a is converted for the chain
ConvertToClsag ==
    /\ sigma # None
    /\ sigma.y = setup.r_a
    /\ sigma.clsag = <<>>
    /\ sigma' = [sigma EXCEPT !.clsag = <<Clsag_from(sigma.signature)>>]
    /\ UNCHANGED <<setup, alice, bob, net, sent, hist, reference>>

\* the single-signer reference: one call of sign with the joint key and the
\* joint nonce, on the ring, commitments and decoy responses of the run
joint_key == Scalar_add(setup.s_prime_a, setup.s_b)

joint_alpha ==
    Scalar_add(Scalar_add(Scalar_random(setup.seed_a, RING_SIZE),
                          Scalar_random(setup.seed_b, 1)),
               setup.r_a)

SingleSigner ==
    /\ sigma # None
    /\ sigma.y = setup.r_a
    /\ reference = None
    /\ reference' =
         LET H_p_pk == hash_point_to_point(setup.pk)
         IN  sign([i \in 1..(RING_SIZE - 1) |-> Scalar_random(setup.seed_a, i)],
                  Ring_new(setup.ring), Ring_new(setup.commitment_ring),
                  setup.z, H_p_pk, setup.pseudo_output_commitment,
                  Point_mul(joint_alpha, ED25519_BASEPOINT_POINT),
                  Point_mul(joint_alpha, H_p_pk),
                  Point_mul(joint_key, H_p_pk),
                  setup.msg, joint_key, joint_alpha)
    /\ UNCHANGED <<setup, alice, bob, net, sent, hist, sigma>>

Next ==
    \/ AliceSend0
    \/ Tamper0
    \/ BobReceive0
    \/ BobSend1
    \/ Tamper1
    \/ AliceReceive1
    \/ AliceSend2
    \/ Tamper2
    \/ Tamper2Half
    \/ BobReceive2
    \/ BobSend3
    \/ Tamper3
    \/ AliceReceive3
    \/ AliceAdapt
    \/ ConvertToClsag
    \/ SingleSigner

Spec == Init /\ [][Next]_vars

\* the exchange of tests::sign_and_verify_success: both parties are built from
\* the same inputs and each message is handed to its recipient as it was made
HonestInit == Init /\ setup.ring_of_bob = setup.ring

HonestNext ==
    \/ AliceSend0
    \/ BobReceive0
    \/ BobSend1
    \/ AliceReceive1
    \/ AliceSend2
    \/ BobReceive2
    \/ BobSend3
    \/ AliceReceive3

\* a step of the exchange can be taken: the guards of the actions of
\* HonestNext, that is, ENABLED <<HonestNext>>_vars
CanStep ==
    \/ alice.state = "Alice0" /\ sent[0] = 0
    \/ bob.state = "Bob0" /\ net[0] # None
    \/ bob.state = "Bob1" /\ sent[1] = 0
    \/ alice.state = "Alice0" /\ net[1] # None
    \/ alice.state = "Alice1" /\ sent[2] = 0
    \/ bob.state = "Bob1" /\ net[2] # None
    \/ bob.state = "Bob2" /\ sent[3] = 0
    \/ alice.state = "Alice1" /\ net[3] # None

\* the test makes its calls one after the other, so a step that can be taken
\* is taken: weak fairness of HonestNext, WF_vars(HonestNext), written out
\* with CanStep for ENABLED <<HonestNext>>_vars
HonestFairness == []<>(~CanStep) \/ []<><<HonestNext>>_vars

HonestSpec == HonestInit /\ [][HonestNext]_vars /\ HonestFairness

(***************************************************************************)
(* Vocabulary of the claims                                                *)
(***************************************************************************)
\* both parties were given the same public inputs
SameInputs == setup.ring_of_bob = setup.ring

\* the parties were given the same public inputs and no message that was
\* received had been changed in flight
HonestRun ==
    /\ SameInputs
    /\ \A k \in Messages : hist.got[k] \in {NotReceived, NoTamper}

\* both parties reached their final state on unchanged messages
HonestComplete ==
    /\ HonestRun
    /\ alice.state = "Alice2"
    /\ bob.state = "Bob2"

setup_ring == Ring_new(setup.ring)

setup_commitment_ring == Ring_new(setup.commitment_ring)

setup_H_p_pk == hash_point_to_point(setup.pk)

setup_alpha_a == Scalar_random(setup.seed_a, RING_SIZE)

setup_alpha_b == Scalar_random(setup.seed_b, 1)

setup_fake_responses ==
    [i \in 1..(RING_SIZE - 1) |-> Scalar_random(setup.seed_a, i)]

\* the values both kernel calls of an honest run work with: the joint key
\* image, the aggregation hashes and the challenge after the last decoy
run_I == Point_mul(joint_key, setup_H_p_pk)

run_mus ==
    sign_mus(setup_ring, setup_commitment_ring, run_I,
             setup.pseudo_output_commitment, setup_H_p_pk)

run_h_last ==
    LET prefix == clsag_round_hash_prefix(setup_ring.bytes,
                      setup_commitment_ring.bytes,
                      setup.pseudo_output_commitment, setup.msg)
    IN  sign_h_last(
            sign_h_0(prefix, Point_mul(joint_alpha, ED25519_BASEPOINT_POINT),
                     Point_mul(joint_alpha, setup_H_p_pk)),
            setup_fake_responses, setup_ring, setup_commitment_ring,
            setup.pseudo_output_commitment, prefix,
            Point_mul(Scalar_inv_8, Point_mul(setup.z, setup_H_p_pk)),
            run_I, run_mus)

\* C1: after a complete honest run with z = 0 the signature adapted with r_a
\* verifies: Signature::verify returns Ok(true), that is, the challenge
\* recurrence started at h_0 returns to h_0 after RING_SIZE positions.
C1_HonestRunVerifies ==
    (sigma # None /\ HonestComplete /\ setup.z = 0 /\ sigma.y = setup.r_a)
    => /\ Signature_verify(sigma.signature, setup.ring, setup.msg) = "Ok(true)"
       /\ recurrence_closes(sigma.signature, setup_ring, setup_commitment_ring,
                            setup.pseudo_output_commitment, setup.msg)

\* C2: kernel closure: the output of a single-signer call of sign (L = alpha*G,
\* R = alpha*H_p(P_0), I = x*H_p(P_0), C_0 - C_pseudo = z*G) satisfies the
\* verification equation, for every z.
C2_KernelClosure ==
    reference # None
    => recurrence_closes(reference, setup_ring, setup_commitment_ring,
                         setup.pseudo_output_commitment, setup.msg)

\* C3: two-party equivalence: the signature of the honest exchange adapted
\* with r_a equals, field by field, the single-signer signature made with the
\* joint key, the joint nonce, the same z and the same decoy responses.
C3_TwoPartyEquivalence ==
    (reference # None /\ HonestComplete /\ sigma.y = setup.r_a)
    => sigma.signature = reference

\* C4: after an honest run the sum of the two half responses held in
\* AdaptorSignature.s_0 is (alpha_a + alpha_b) - h_N*(mu_P*(s'_a + s_b) + mu_C*z):
\* the mu_C*z term is counted once.
C4_HalfSum ==
    HonestComplete
    => alice.adaptor_sig.s_0 =
         Scalar_sub(Scalar_add(setup_alpha_a, setup_alpha_b),
                    Scalar_mul(run_h_last,
                        Scalar_add(Scalar_mul(run_mus.mu_P, joint_key),
                                   Scalar_mul(run_mus.mu_C, setup.z))))

\* what Alice committed to in Message0
committed_opening ==
    Opening_new(setup_fake_responses,
                Point_mul(setup.s_prime_a, setup_H_p_pk),
                Point_mul(setup_alpha_a, setup_H_p_pk),
                Point_mul(setup_alpha_a, ED25519_BASEPOINT_POINT))

Received(k) == hist.got[k] # NotReceived

\* C5: adapt(y) returns a signature whose last response minus A.s_0 is y and
\* whose decoy responses, h_0, I and D are those of A; after an honest run both
\* parties hold s_0 = s_{a,0} + s_{b,0}, so Bob computes r_a from the
\* published signature.
C5_AdaptorExtraction ==
    /\ sigma # None
       => /\ Scalar_sub(At(sigma.signature.responses, RING_SIZE - 1),
                        sigma.adaptor.s_0) = sigma.y
          /\ SubSeq(sigma.signature.responses, 1, RING_SIZE - 1)
               = sigma.adaptor.fake_responses
          /\ Len(sigma.signature.responses) = RING_SIZE
          /\ sigma.signature.h_0 = sigma.adaptor.h_0
          /\ sigma.signature.I = sigma.adaptor.I
          /\ sigma.signature.D = sigma.adaptor.D
    /\ HonestComplete
       => /\ alice.adaptor_sig.s_0 = Scalar_add(hist.halfA[1], hist.halfB[1])
          /\ bob.adaptor_sig.s_0 = Scalar_add(hist.halfA[1], hist.halfB[1])
    /\ (sigma # None /\ HonestComplete /\ sigma.y = setup.r_a)
       => Scalar_sub(At(sigma.signature.responses, RING_SIZE - 1),
                     bob.adaptor_sig.s_0) = setup.r_a

C5_Extracted ==
    /\ sigma # None
    /\ HonestComplete
    /\ sigma.y = setup.r_a
    /\ setup.r_a # 0

\* C6: Message k+1 is produced only after Message k was produced and received
\* by the party that emits Message k+1; the messages occur in the order
\* 0, 1, 2, 3 and none is skipped.
C6_MessageOrdering ==
    /\ \A k \in 0..2 : sent[k + 1] > 0 => (sent[k] > 0 /\ Received(k))
    /\ \A k \in Messages : Received(k) => sent[k] > 0
    /\ sent[1] > 0 => hist.recv["Bob0"] = 1
    /\ sent[2] > 0 => hist.recv["Alice0"] = 1
    /\ sent[3] > 0 => hist.recv["Bob1"] = 1

C6_AllFourInOrder ==
    /\ \A k \in Messages : sent[k] > 0 /\ Received(k)

AliceMoves ==
    {<<"Alice0", "Alice1">>, <<"Alice1", "Alice2">>, <<"Alice0", "Err">>}

BobMoves ==
    {<<"Bob0", "Bob1">>, <<"Bob1", "Bob2">>, <<"Bob1", "Err">>}

\* C7: Alice only moves Alice0 -> Alice1 -> Alice2 and Bob only
\* Bob0 -> Bob1 -> Bob2 (a failed receive leaves no state); every receive
\* consumes the state it is invoked on, so no state performs its transition
\* twice, none is re-entered and none is skipped.
C7_LinearSingleShot ==
    [][ /\ alice'.state # alice.state
           => <<alice.state, alice'.state>> \in AliceMoves
        /\ bob'.state # bob.state
           => <<bob.state, bob'.state>> \in BobMoves
        /\ \A st \in {"Alice0", "Alice1"} :
             hist'.recv[st] # hist.recv[st]
             => /\ hist.recv[st] = 0
                /\ alice.state = st
                /\ alice'.state # st
        /\ \A st \in {"Bob0", "Bob1"} :
             hist'.recv[st] # hist.recv[st]
             => /\ hist.recv[st] = 0
                /\ bob.state = st
                /\ bob'.state # st
      ]_vars

C7_BothFinal ==
    /\ alice.state = "Alice2"
    /\ bob.state = "Bob2"
    /\ \A st \in {"Alice0", "Alice1", "Bob0", "Bob1"} : hist.recv[st] = 1

\* C8: Alice0::receive returns the invalid-DLEQ error whenever pi_b does not
\* verify for (G, T_b; H_p(P_0), I_hat_b) of the same message, as when
\* I_hat_b is replaced by I_hat_b + G; then the kernel is not run, no Alice1
\* exists and Message2 is never emitted.
C8_InvalidProofAborts ==
    /\ [][ (/\ hist'.recv["Alice0"] # hist.recv["Alice0"]
            /\ ~DleqProof_verify(net[1].pi_b, ED25519_BASEPOINT_POINT,
                                 net[1].T_b, setup_H_p_pk, net[1].I_hat_b))
           => /\ alice' = Err("invalid DLEQ proof")
              /\ hist'.kernelA = hist.kernelA
              /\ hist'.halfA = hist.halfA
         ]_vars
    /\ [](hist.got[1] = <<"I_hat_b", 0>>
            => alice = Err("invalid DLEQ proof"))
    /\ [](alice.state = "Err"
            => /\ hist.kernelA = 0
               /\ hist.halfA = <<>>
               /\ sent[2] = 0
               /\ net[2] = None)

C8_TamperedProofRejected ==
    /\ alice = Err("invalid DLEQ proof")
    /\ hist.got[1] = <<"I_hat_b", 0>>

\* C9: Bob1::receive returns the commitment-mismatch error whenever the
\* opening differs in any component (a decoy response, I_a, I_hat_a or T_a)
\* from the committed tuple; then the kernel is not run, no Bob2 exists and
\* Message3 is never emitted.
C9_OpeningMismatchAborts ==
    /\ [][ (/\ hist'.recv["Bob1"] # hist.recv["Bob1"]
            /\ net[2].d_a # committed_opening)
           => /\ bob' = Err("opening does not match commitment")
              /\ hist'.kernelB = hist.kernelB
              /\ hist'.halfB = hist.halfB
         ]_vars
    /\ [](hist.got[2] \in Tamper2Kinds
            => /\ bob = Err("opening does not match commitment")
               /\ hist.kernelB = 0
               /\ hist.halfB = <<>>
               /\ sent[3] = 0
               /\ net[3] = None)

C9_TamperedOpeningRejected ==
    /\ bob = Err("opening does not match commitment")
    /\ hist.got[2] = <<"T_a", 0>>
    /\ hist.got[0] = NoTamper

\* C10: Bob1::receive checks the opening first, then pi_a against the opened
\* statement, and only then runs the kernel: where Bob2 exists or s_{b,0}
\* was produced both checks passed; a matching opening with an invalid pi_a
\* gives the invalid-DLEQ error; both bad gives the commitment-mismatch error.
C10_CheckOrder ==
    /\ [][ hist'.recv["Bob1"] # hist.recv["Bob1"]
           => LET opened == Opening_open(net[2].d_a, bob.c_a)
                  pi_a_ok == DleqProof_verify(bob.pi_a, ED25519_BASEPOINT_POINT,
                                 net[2].d_a.T_a, bob.H_p_pk, net[2].d_a.I_hat_a)
              IN  /\ (bob'.state = "Bob2" \/ hist'.kernelB # hist.kernelB
                        \/ hist'.halfB # hist.halfB)
                     => (opened.ok /\ pi_a_ok)
                  /\ (opened.ok /\ ~pi_a_ok)
                     => bob' = Err("invalid DLEQ proof")
                  /\ (~opened.ok /\ ~pi_a_ok)
                     => bob' = Err("opening does not match commitment")
         ]_vars
    /\ []((hist.got[0] = <<"pi_a", 0>> /\ hist.got[2] = NoTamper)
            => bob = Err("invalid DLEQ proof"))
    /\ []((hist.got[0] = <<"pi_a", 0>> /\ hist.got[2] \in Tamper2Kinds)
            => bob = Err("opening does not match commitment"))
    /\ []((bob.state = "Bob2" \/ hist.halfB # <<>> \/ hist.kernelB > 0)
            => (hist.got[0] = NoTamper /\ hist.got[2] \notin Tamper2Kinds))

C10_InvalidProofAfterOpening ==
    /\ bob = Err("invalid DLEQ proof")
    /\ hist.got[0] = <<"pi_a", 0>>
    /\ hist.got[2] = NoTamper

\* C11: errors are fatal: a failed Alice0::receive or Bob1::receive leaves no
\* state value, so the failing party takes no further transition, does not
\* retry the step, and produces no further message or (half-)adaptor
\* signature.
C11_ErrorsFatal ==
    [][ /\ (hist'.recv["Alice0"] # hist.recv["Alice0"]
              /\ alice'.state # "Alice1")
           => alice'.state = "Err"
        /\ (hist'.recv["Bob1"] # hist.recv["Bob1"] /\ bob'.state # "Bob2")
           => bob'.state = "Err"
        /\ alice.state = "Err"
           => /\ alice' = alice
              /\ sent'[0] = sent[0] /\ sent'[2] = sent[2]
              /\ hist'.recv["Alice0"] = hist.recv["Alice0"]
              /\ hist'.recv["Alice1"] = hist.recv["Alice1"]
              /\ hist'.kernelA = hist.kernelA
              /\ hist'.halfA = hist.halfA
              /\ sigma' = sigma /\ sigma = None
        /\ bob.state = "Err"
           => /\ bob' = bob
              /\ sent'[1] = sent[1] /\ sent'[3] = sent[3]
              /\ hist'.recv["Bob0"] = hist.recv["Bob0"]
              /\ hist'.recv["Bob1"] = hist.recv["Bob1"]
              /\ hist'.kernelB = hist.kernelB
              /\ hist'.halfB = hist.halfB
              /\ sigma' = sigma /\ sigma = None
      ]_vars

\* Bob failed while Alice1 and her Message2 are still there
C11_FailedWithMessagePending ==
    /\ bob.state = "Err"
    /\ alice.state = "Alice1"
    /\ net[2] # None
    /\ hist.recv["Bob1"] = 1

\* C12: agreement: in an honest run with the same public inputs and the same
\* z both parties call the kernel with the same L_ext = T_a + T_b + R_a,
\* R_ext = I_hat_a + I_hat_b + R'_a, I = I_a + I_b and decoy responses, and
\* Alice2.adaptor_sig equals Bob2.adaptor_sig in every field.
C12_Agreement ==
    /\ (HonestRun /\ hist.argsA # <<>> /\ hist.argsB # <<>>)
       => /\ hist.argsA = hist.argsB
          /\ hist.argsA[1].L =
               Point_mul(joint_alpha, ED25519_BASEPOINT_POINT)
          /\ hist.argsA[1].R = Point_mul(joint_alpha, setup_H_p_pk)
          /\ hist.argsA[1].I = run_I
          /\ hist.argsA[1].fake_responses = setup_fake_responses
    /\ HonestComplete
       => /\ alice.adaptor_sig = bob.adaptor_sig
          /\ \A f \in {"s_0", "fake_responses", "h_0", "I", "D"} :
               alice.adaptor_sig[f] = bob.adaptor_sig[f]

C12_BothHoldTheAdaptorSignature ==
    /\ HonestComplete
    /\ hist.argsA # <<>>
    /\ hist.argsB = hist.argsA
    /\ setup.z # 0

\* C13: on-chain mapping: the Clsag made from a Signature has c1 = h_0, the
\* stored D unchanged, and the 11 responses in ring-position order: the real
\* signer's response at index 0 of s, then the decoy responses of positions
\* 1..10.
C13_OnChainMapping ==
    (sigma # None /\ sigma.clsag # <<>>)
    => LET clsag == sigma.clsag[1]
           real == Scalar_add(sigma.adaptor.s_0, sigma.y)
       IN  /\ clsag.c1 = Scalar_as_bytes(sigma.signature.h_0)
           /\ clsag.D = compress(sigma.signature.D)
           /\ Len(clsag.s) = RING_SIZE
           /\ At(clsag.s, 0) = Scalar_as_bytes(real)
           /\ \A i \in 1..(RING_SIZE - 1) :
                At(clsag.s, i) =
                  Scalar_as_bytes(At(sigma.adaptor.fake_responses, i - 1))

\* the parties are constructed and nothing was sent: the inputs are all there
Constructed == sent[0] = 0

\* pairs of bases G, H for which proofs are made
DleqBases ==
    {<<ED25519_BASEPOINT_POINT, setup_H_p_pk>>,
     <<setup_H_p_pk, ED25519_BASEPOINT_POINT>>,
     <<setup.R_a, setup.R_prime_a>>}

\* C14: DLEQ completeness: for all bases G, H, every witness x and every
\* prover nonce r the proof of DleqProof::new(G, x*G, H, x*H, x) is accepted
\* by DleqProof::verify(G, x*G, H, x*H); so the proofs the parties send are
\* accepted when they arrive unchanged.
C14_DleqCompleteness ==
    /\ Constructed
       => \A b \in DleqBases : \A x \in 0..MaxSecret : \A r \in 0..MaxSeed :
         LET xG == Point_mul(x, b[1])
             xH == Point_mul(x, b[2])
             nonce == Scalar_random(r, x)
         IN  DleqProof_verify(DleqProof_new(b[1], xG, b[2], xH, x, nonce),
                              b[1], xG, b[2], xH)
    /\ (net[0] # None /\ hist.inflight[0] = NoTamper)
       => DleqProof_verify(net[0].pi_a, ED25519_BASEPOINT_POINT,
              committed_opening.T_a, setup_H_p_pk, committed_opening.I_hat_a)
    /\ (net[1] # None /\ hist.inflight[1] = NoTamper)
       => DleqProof_verify(net[1].pi_b, ED25519_BASEPOINT_POINT,
              net[1].T_b, setup_H_p_pk, net[1].I_hat_b)
    /\ hist.got[1] = NoTamper => alice.state # "Err"
    /\ (hist.got[0] = NoTamper /\ hist.got[2] = NoTamper) => bob.state # "Err"

C14_ProofsAccepted ==
    /\ hist.got[0] = NoTamper
    /\ hist.got[1] = NoTamper
    /\ hist.got[2] = NoTamper
    /\ alice.state = "Alice1"
    /\ bob.state = "Bob2"

\* the committed tuple and the tuples that differ from it in one component
SomeTuples ==
    {committed_opening}
    \cup {Tamper2Opening(committed_opening, how) : how \in Tamper2Kinds}

\* C15: commitment round-trip: for every tuple t,
\* Opening::new(t).open(Commitment::new(t)) succeeds and returns t; Alice0::receive
\* carries the committed values into Alice1 unchanged, so the opening of an
\* honest Message2 opens the commitment of Message0.
C15_CommitmentRoundTrip ==
    /\ Constructed
       => \A t \in SomeTuples :
         LET opened == Opening_open(
                 Opening_new(t.fake_responses, t.I_a, t.I_hat_a, t.T_a),
                 Commitment_new(t.fake_responses, t.I_a, t.I_hat_a, t.T_a))
         IN  /\ opened.ok
             /\ opened.fake_responses = t.fake_responses
             /\ opened.I_a = t.I_a
             /\ opened.I_hat_a = t.I_hat_a
             /\ opened.T_a = t.T_a
    /\ alice.state = "Alice1"
       => /\ alice.fake_responses = committed_opening.fake_responses
          /\ alice.I_a = committed_opening.I_a
          /\ alice.I_hat_a = committed_opening.I_hat_a
          /\ alice.T_a = committed_opening.T_a
    /\ (net[2] # None /\ hist.inflight[2] = NoTamper)
       => LET opened == Opening_open(net[2].d_a, net[0].c_a)
          IN  /\ opened.ok
              /\ opened.fake_responses = committed_opening.fake_responses
              /\ opened.I_a = committed_opening.I_a
              /\ opened.I_hat_a = committed_opening.I_hat_a
              /\ opened.T_a = committed_opening.T_a
    /\ hist.got[2] = NoTamper
       => bob # Err("opening does not match commitment")

C15_HonestOpeningReceived ==
    /\ net[2] # None
    /\ hist.got[2] = NoTamper
    /\ hist.recv["Bob1"] = 1

\* C16: wrong adaptor secret: after an honest run the signature adapt(y)
\* verifies (Signature::verify returns Ok(true), the recurrence returns to h_0)
\* if and only if y = r_a; for y # r_a, as for y = r_a + 1, it fails.
C16_VerifiesIffSecret ==
    (sigma # None /\ HonestComplete /\ setup.z = 0)
    => /\ (Signature_verify(sigma.signature, setup.ring, setup.msg) = "Ok(true)")
            <=> (sigma.y = setup.r_a)
       /\ recurrence_closes(sigma.signature, setup_ring, setup_commitment_ring,
                            setup.pseudo_output_commitment, setup.msg)
            <=> (sigma.y = setup.r_a)

\* the key image of the secret x: x * H_p(x * G)
key_image(x) ==
    Point_mul(x, hash_point_to_point(Point_mul(x, ED25519_BASEPOINT_POINT)))

\* C17: key-image linkability: the key image I = I_a + I_b of every run is
\* (s'_a + s_b) * H_p(P_0), a function of the joint secret alone: runs with the
\* same joint secret and other decoy ring members, commitment ring, z, nonces
\* and decoy responses give the same I.
C17_KeyImageLinkability ==
    /\ alice.state = "Alice1" => alice.sig.I = key_image(joint_key)
    /\ alice.state = "Alice2" => alice.adaptor_sig.I = key_image(joint_key)
    /\ bob.state = "Bob2" => bob.adaptor_sig.I = key_image(joint_key)
    /\ sigma # None => sigma.signature.I = key_image(joint_key)
    /\ hist.argsA # <<>> => hist.argsA[1].I = key_image(joint_key)
    /\ hist.argsB # <<>> => hist.argsB[1].I = key_image(joint_key)

\* two parties holding rings that differ in a decoy reach the same key image
C17_SameImageOverOtherRing ==
    /\ alice.state = "Alice2"
    /\ bob.state = "Bob2"
    /\ ~SameInputs
    /\ alice.adaptor_sig.I = bob.adaptor_sig.I
    /\ alice.adaptor_sig.h_0 # bob.adaptor_sig.h_0

C19_MuHashedOverD ==
    reference # None
    => /\ reference.D = Point_mul(setup.z, setup_H_p_pk)
       /\ run_mus = AggregationHashes_new(setup_ring, setup_commitment_ring,
                        reference.I, setup.pseudo_output_commitment,
                        reference.D)

\* C20: in the decoy walk of sign, position i in 1..N-1 takes the ring member
\* P_i and the commitment C_i of the same index i, with s_i =
\* fake_responses[i-1]; commitment_ring[0] is used for no decoy position.
C20_DecoyWalkSameIndex ==
    reference # None
    => \A i \in 0..(RING_SIZE - 2) :
         /\ sign_adjusted_commitment(setup_commitment_ring,
                setup.pseudo_output_commitment, i)
              = Point_sub(At(setup_commitment_ring.points, i + 1),
                          setup.pseudo_output_commitment)
         /\ sign_adjusted_commitment(setup_commitment_ring,
                setup.pseudo_output_commitment, i)
              # Point_sub(At(setup_commitment_ring.points, 0),
                          setup.pseudo_output_commitment)

\* C21: kernel output layout: sign returns h_0 = H(prefix, L, R), which is the
\* same for calls that differ in signing key and nonce only; I as it was
\* given; D = z * H_p0; the responses fake_responses[0..N-2] in their order in
\* slots 0..N-2 and alpha - h_N*(mu_P*signing_key + mu_C*z) in slot N-1, with
\* h_N and mu_P, mu_C the values of that call; each party takes slot N-1 as
\* its half of s_0.
C21_KernelOutputLayout ==
    reference # None
    => LET prefix == clsag_round_hash_prefix(setup_ring.bytes,
                         setup_commitment_ring.bytes,
                         setup.pseudo_output_commitment, setup.msg)
           L == Point_mul(joint_alpha, ED25519_BASEPOINT_POINT)
           R == Point_mul(joint_alpha, setup_H_p_pk)
           h_N == run_h_last
           mus == run_mus
       IN  /\ reference.h_0 = Scalar_from_bytes_mod_order(Keccak256(
                                  prefix \o compress(L) \o compress(R)))
           /\ reference.I = run_I
           /\ reference.D = Point_mul(setup.z, setup_H_p_pk)
           /\ Len(reference.responses) = RING_SIZE
           /\ \A i \in 0..(RING_SIZE - 2) :
                At(reference.responses, i) = Scalar_random(setup.seed_a, i + 1)
           /\ At(reference.responses, RING_SIZE - 1) =
                Scalar_sub(joint_alpha,
                    Scalar_mul(h_N,
                        Scalar_add(Scalar_mul(mus.mu_P, joint_key),
                                   Scalar_mul(mus.mu_C, setup.z))))
           /\ HonestComplete
              => /\ alice.adaptor_sig.h_0 = reference.h_0
                 /\ bob.adaptor_sig.h_0 = reference.h_0
                 /\ hist.halfA[1] =
                      Scalar_sub(setup_alpha_a,
                          Scalar_mul(h_N,
                              Scalar_add(Scalar_mul(mus.mu_P, setup.s_prime_a),
                                         Scalar_mul(mus.mu_C, setup.z))))
                 /\ hist.halfB[1] =
                      Scalar_sub(setup_alpha_b,
                          Scalar_mul(h_N,
                              Scalar_add(Scalar_mul(mus.mu_P, setup.s_b),
                                         Scalar_mul(mus.mu_C, setup.z))))
                 /\ bob.s_0_b = hist.halfB[1]

C21_KernelReturned ==
    /\ reference # None
    /\ HonestComplete
    /\ setup.z # 0
    /\ hist.halfA # hist.halfB

\* C22: nonce single use: each party's nonce goes to the signing kernel at
\* most once in a run: the kernel runs only in the receive that consumes
\* Alice0 (Bob1), the state that follows holds no nonce, a half response is
\* recorded once and never replaced, and the half a party sends is that one
\* half, whatever was changed in flight and in whatever order the steps are
\* taken.
C22_NonceSingleUse ==
    /\ [](hist.kernelA <= 1 /\ hist.kernelB <= 1)
    /\ [][ /\ hist'.kernelA # hist.kernelA
              => /\ hist.kernelA = 0
                 /\ hist.halfA = <<>>
                 /\ alice.state = "Alice0"
                 /\ alice'.state = "Alice1"
           /\ hist'.halfA # hist.halfA
              => /\ hist.halfA = <<>>
                 /\ hist'.kernelA = hist.kernelA + 1
           /\ hist'.kernelB # hist.kernelB
              => /\ hist.kernelB = 0
                 /\ hist.halfB = <<>>
                 /\ bob.state = "Bob1"
                 /\ bob'.state = "Bob2"
           /\ hist'.halfB # hist.halfB
              => /\ hist.halfB = <<>>
                 /\ hist'.kernelB = hist.kernelB + 1
         ]_vars
    /\ [](alice.state \in {"Alice1", "Alice2"} => "alpha_a" \notin DOMAIN alice)
    /\ [](bob.state = "Bob2" => "alpha_b" \notin DOMAIN bob)
    /\ []((net[2] # None /\ hist.inflight[2] \in {NoTamper} \cup Tamper2Kinds)
            => net[2].s_0_a = hist.halfA[1])
    /\ []((net[3] # None /\ hist.inflight[3] = NoTamper)
            => net[3].s_0_b = hist.halfB[1])

\* both kernels ran, each once, and both halves were sent
C22_BothKernelsRanOnce ==
    /\ hist.kernelA = 1
    /\ hist.kernelB = 1
    /\ alice.state = "Alice2"
    /\ sent[3] = 1

\* the fields of Bob0
Bob0Fields ==
    {"ring", "msg", "commitment_ring", "pseudo_output_commitment", "R_a",
     "R_prime_a", "s_b", "alpha_b", "H_p_pk", "I_b", "I_hat_b", "T_b"}

\* C23: Bob0::receive(Message0) never fails and checks nothing: Bob1 has every
\* field of Bob0 unchanged plus pi_a and c_a of the message; so I_b, T_b and
\* I_hat_b of Message1 are those fixed in Bob0::new, s_b*H_p(P_0), alpha_b*G
\* and alpha_b*H_p(P_0), the same whether Message0 arrived as sent or changed.
C23_Bob0ReceiveFrame ==
    /\ [][ hist'.recv["Bob0"] # hist.recv["Bob0"]
           => /\ bob.state = "Bob0"
              /\ bob'.state = "Bob1"
              /\ DOMAIN bob' = Bob0Fields \cup {"state", "pi_a", "c_a"}
              /\ \A f \in Bob0Fields : bob'[f] = bob[f]
              /\ bob'.pi_a = net[0].pi_a
              /\ bob'.c_a = net[0].c_a
         ]_vars
    /\ [](bob.state = "Err" => hist.recv["Bob1"] = 1)
    /\ [](bob.state \in {"Bob0", "Bob1"}
            => /\ bob.I_b = Point_mul(setup.s_b, setup_H_p_pk)
               /\ bob.T_b = Point_mul(setup_alpha_b, ED25519_BASEPOINT_POINT)
               /\ bob.I_hat_b = Point_mul(setup_alpha_b, setup_H_p_pk))
    /\ []((net[1] # None /\ hist.inflight[1] = NoTamper)
            => /\ net[1].I_b = Point_mul(setup.s_b, setup_H_p_pk)
               /\ net[1].T_b = Point_mul(setup_alpha_b, ED25519_BASEPOINT_POINT)
               /\ net[1].I_hat_b = Point_mul(setup_alpha_b, setup_H_p_pk))

\* Message1 was built by a Bob who took a changed Message0
C23_Message1AfterChangedMessage0 ==
    /\ hist.got[0] = <<"pi_a", 0>>
    /\ bob.state = "Bob1"
    /\ net[1] # None
    /\ hist.inflight[1] = NoTamper

\* C24: the received half responses are never validated: Alice1::receive
\* cannot fail and gives Alice2 with adaptor_sig.s_0 = s_{a,0} + msg.s_0_b for
\* whatever scalar the message holds; Bob1::receive, once the opening and pi_a
\* pass, gives adaptor_sig.s_0 = s_{b,0} + msg.s_0_a likewise; so a party
\* reaches its final state also with a half that is not the counterparty's,
\* and then its s_0 is not the sum of the two halves.
C24_HalvesNotValidated ==
    /\ [][ /\ hist'.recv["Alice1"] # hist.recv["Alice1"]
              => /\ alice'.state = "Alice2"
                 /\ alice'.adaptor_sig.s_0 =
                      Scalar_add(alice.sig.s_0_half, net[3].s_0_b)
                 /\ alice'.adaptor_sig.fake_responses = alice.sig.fake_responses
                 /\ alice'.adaptor_sig.h_0 = alice.sig.h_0
                 /\ alice'.adaptor_sig.I = alice.sig.I
                 /\ alice'.adaptor_sig.D = alice.sig.D
           /\ hist'.recv["Bob1"] # hist.recv["Bob1"]
              => LET opened == Opening_open(net[2].d_a, bob.c_a)
                     pi_a_ok == DleqProof_verify(bob.pi_a,
                                    ED25519_BASEPOINT_POINT, net[2].d_a.T_a,
                                    bob.H_p_pk, net[2].d_a.I_hat_a)
                 IN  (opened.ok /\ pi_a_ok)
                     => /\ bob'.state = "Bob2"
                        /\ bob'.adaptor_sig.s_0 =
                             Scalar_add(bob'.s_0_b, net[2].s_0_a)
         ]_vars
    /\ [](hist.got[3] \in HalfKinds
            => /\ alice.state = "Alice2"
               /\ alice.adaptor_sig.s_0 #
                    Scalar_add(hist.halfA[1], hist.halfB[1]))
    /\ []((hist.got[2] \in HalfKinds /\ hist.got[0] = NoTamper)
            => /\ bob.state = "Bob2"
               /\ bob.adaptor_sig.s_0 #
                    Scalar_add(hist.halfA[1], hist.halfB[1]))

\* both parties are in their final state, each with a changed half
C24_BothFinalOnChangedHalves ==
    /\ alice.state = "Alice2"
    /\ bob.state = "Bob2"
    /\ hist.got[2] \in HalfKinds
    /\ hist.got[3] \in HalfKinds
    /\ alice.adaptor_sig.s_0 # Scalar_add(hist.halfA[1], hist.halfB[1])
    /\ bob.adaptor_sig.s_0 # Scalar_add(hist.halfA[1], hist.halfB[1])

\* C25: honest completion: with both parties honest, built from the same
\* public inputs, and every message delivered as it was made, the run ends
\* after exactly four messages with Alice in Alice2 and Bob in Bob2 and
\* nothing left to do; no receive returns an error on the way: pi_b verifies,
\* the opening matches c_a and pi_a verifies.
C25_HonestCompletion ==
    /\ <>[](/\ alice.state = "Alice2"
            /\ bob.state = "Bob2"
            /\ \A k \in Messages : sent[k] = 1 /\ hist.got[k] = NoTamper
            /\ ~CanStep)
    /\ [](alice.state # "Err" /\ bob.state # "Err")
    /\ [](\A k \in Messages : sent[k] <= 1)
    /\ [][CanStep]_vars
    /\ [][ /\ hist'.recv["Alice0"] # hist.recv["Alice0"]
              => /\ DleqProof_verify(net[1].pi_b, ED25519_BASEPOINT_POINT,
                                     net[1].T_b, alice.H_p_pk, net[1].I_hat_b)
                 /\ alice'.state = "Alice1"
           /\ hist'.recv["Bob1"] # hist.recv["Bob1"]
              => /\ Opening_open(net[2].d_a, bob.c_a).ok
                 /\ DleqProof_verify(bob.pi_a, ED25519_BASEPOINT_POINT,
                                     net[2].d_a.T_a, bob.H_p_pk,
                                     net[2].d_a.I_hat_a)
                 /\ bob'.state = "Bob2"
         ]_vars

\* the honest exchange is over
C25_ExchangeOver ==
    /\ alice.state = "Alice2"
    /\ bob.state = "Bob2"
    /\ \A k \in Messages : sent[k] = 1 /\ hist.got[k] = NoTamper
    /\ setup.ring_of_bob = setup.ring

====
